---- MODULE Spec2Model ----
(***************************************************************************)
(* Model of CampaignIQ (src/1_*_CampaignIQ.py): the similarity query over  *)
(* the campaign index, the audit-status classifier, the splitting of the   *)
(* generated copy into draft options, and the session's request handlers   *)
(* (generate, edit, save, cancel, audit, finalize) with the two sheets.    *)
(*                                                                         *)
(* A text is a sequence of tokens.  A token stands for one character or    *)
(* for one fixed run of characters of the Python string:                   *)
(*   "stop" "warn" "check"            the three status emoji               *)
(*   "_FAIL" "_NEEDS_INFO" "_PASS"    " FAIL", " NEEDS INFO", " PASS"      *)
(*   "option" "Option"                the word option in either case       *)
(*   "sp" a blank, "d" a digit, ":" a colon, "w" a letter, "x" any other   *)
(*   non-word, non-blank character, "boom" the error emoji.                *)
(***************************************************************************)
EXTENDS Integers, Sequences, FiniteSets

VARIABLES
    pc,                 \* which part of the program the state belongs to
    compliance_manual,  \* TRUE iff the manual text read at start-up is non-empty
    indexed_df_present, \* 'indexed_df' in st.session_state
    indexed_df,         \* st.session_state.indexed_df: rows [content, embeddings]
    campaign_options,   \* st.session_state.campaign_options
    past_table,         \* sheet "Marketing Copilot Data": the contents of its rows
    tracker_table,      \* sheet "Campaign Tracker DB": its rows
    last_event,         \* what the last script run or callback showed the user
    audit_result_text,  \* determine_overall_status: its argument
    overall_status,     \* determine_overall_status: its result
    generated_copy,     \* the text handed to re.split
    options,            \* the list built from the split
    query_embedding,    \* find_similar_campaigns: the query's vector
    df,                 \* find_similar_campaigns: its df argument
    n,                  \* find_similar_campaigns: its n argument
    top_n_indices,      \* find_similar_campaigns: positions chosen (1-based)
    similar_campaigns   \* find_similar_campaigns: its return value

vars == << pc, compliance_manual, indexed_df_present, indexed_df, campaign_options,
           past_table, tracker_table, last_event, audit_result_text, overall_status,
           generated_copy, options, query_embedding, df, n, top_n_indices,
           similar_campaigns >>

-----------------------------------------------------------------------------
(* Bounds of the model *)

MaxAuditLen == 4    \* tokens of an audit text given to the classifier
MaxPieces == 5      \* pieces of a generated copy given to the split
MaxIndex == 3       \* rows of the index given to the similarity query
MaxN == 3           \* largest n given to the similarity query
MaxTracker == 1     \* rows the tracker sheet may gain

(* Program constants *)

DefaultN == 3       \* find_similar_campaigns(query, df, n=3)
NumExamples == 3    \* generate_content reads examples[0], [1], [2]

-----------------------------------------------------------------------------
(* Texts *)

SeqsUpTo(S, k) == UNION { [ 1..m -> S ] : m \in 0..k }

RECURSIVE Concat(_)
Concat(ss) == IF ss = <<>> THEN <<>> ELSE Head(ss) \o Concat(Tail(ss))

\* Python's  marker in text  on str: the marker occurs as a substring.
Contains(text, marker) ==
    \E i \in 1..(Len(text) - Len(marker) + 1) :
        SubSeq(text, i, i + Len(marker) - 1) = marker

FAIL_MARKER == << "stop", "_FAIL" >>
NEEDS_INFO_MARKER == << "warn", "_NEEDS_INFO" >>
PASS_MARKER == << "check", "_PASS" >>

\* A bug the precedence claim must exclude: the pass marker is tested first.
determine_overall_status_PassFirst(text) ==
    IF text = <<>> THEN "pending"
    ELSE IF Contains(text, PASS_MARKER) THEN "compliant"
    ELSE IF Contains(text, FAIL_MARKER) THEN "non-compliant"
    ELSE IF Contains(text, NEEDS_INFO_MARKER) THEN "needs-review"
    ELSE "pending"

\* A bug the pending claim must exclude: marker-free text counts as compliant.
determine_overall_status_ElseCompliant(text) ==
    IF text = <<>> THEN "pending"
    ELSE IF Contains(text, FAIL_MARKER) THEN "non-compliant"
    ELSE IF Contains(text, NEEDS_INFO_MARKER) THEN "needs-review"
    ELSE "compliant"

determine_overall_status(text) ==
    IF text = <<>> THEN "pending"
    ELSE IF Contains(text, FAIL_MARKER) THEN "non-compliant"
    ELSE IF Contains(text, NEEDS_INFO_MARKER) THEN "needs-review"
    ELSE IF Contains(text, PASS_MARKER) THEN "compliant"
    ELSE "pending"

-----------------------------------------------------------------------------
(* re.split(r'(?i)\boption \d+:', text), strip, drop the blank segments *)

IsOptionWord(c) == c \in { "option", "Option" }
IsWordChar(c) == c \in { "option", "Option", "w", "d" }
IsSpace(c) == c = "sp"

\* The end of the run of digits that starts at position j (j - 1 when there is none).
RECURSIVE DigitsEnd(_, _)
DigitsEnd(text, j) ==
    IF j <= Len(text) /\ text[j] = "d" THEN DigitsEnd(text, j + 1) ELSE j - 1

\* The position of the last character of a match of the pattern starting at i,
\* or 0 when the pattern does not match at i.  \b: "option" starts with a word
\* character, so the character before it must not be one.
MatchEnd(text, i) ==
    IF /\ i + 3 <= Len(text)
       /\ IsOptionWord(text[i])
       /\ (i = 1 \/ ~IsWordChar(text[i - 1]))
       /\ text[i + 1] = "sp"
       /\ text[i + 2] = "d"
       /\ DigitsEnd(text, i + 2) + 1 <= Len(text)
       /\ text[DigitsEnd(text, i + 2) + 1] = ":"
    THEN DigitsEnd(text, i + 2) + 1
    ELSE 0

\* re.split: the text before the first match, between matches, after the last.
RECURSIVE SplitFrom(_, _, _)
SplitFrom(text, start, i) ==
    IF i > Len(text) THEN << SubSeq(text, start, Len(text)) >>
    ELSE IF MatchEnd(text, i) > 0
         THEN << SubSeq(text, start, i - 1) >>
              \o SplitFrom(text, MatchEnd(text, i) + 1, MatchEnd(text, i) + 1)
         ELSE SplitFrom(text, start, i + 1)

re_split(text) == SplitFrom(text, 1, 1)

\* str.strip(): the blanks at both ends removed.
RECURSIVE LStrip(_)
LStrip(text) ==
    IF text # <<>> /\ IsSpace(Head(text)) THEN LStrip(Tail(text)) ELSE text

RECURSIVE RStrip(_)
RStrip(text) ==
    IF text # <<>> /\ IsSpace(text[Len(text)])
    THEN RStrip(SubSeq(text, 1, Len(text) - 1))
    ELSE text

strip(text) == RStrip(LStrip(text))

MapStrip(segs) == [ k \in 1..Len(segs) |-> strip(segs[k]) ]
NonEmpty(s) == s # <<>>

\* A bug the split claim must exclude: the blank segments are kept.
split_options_KeepBlank(text) == MapStrip(re_split(text))

\* [opt.strip() for opt in re.split(...) if opt.strip()]
split_options(text) == SelectSeq(MapStrip(re_split(text)), NonEmpty)

\* The DraftOption records the generate handler appends.
new_options(texts, t_and_c) ==
    [ k \in 1..Len(texts) |->
        [ id |-> k, campaign_text |-> texts[k], t_and_c_text |-> t_and_c,
          audit_result |-> <<>>, is_editing |-> FALSE ] ]

-----------------------------------------------------------------------------
(* find_similar_campaigns: cosine similarity, argsort, the last n, reversed *)

\* The embedding vectors the model draws from: a zero vector, two parallel
\* ones, orthogonal and opposite ones.
Vectors == { << 0, 0 >>, << 1, 0 >>, << 2, 0 >>, << 0, 1 >>, << 1, 1 >>, << -1, 0 >> }

Dot(a, b) == a[1] * b[1] + a[2] * b[2]

\* sklearn's cosine_similarity normalises each row by its norm, and a zero row
\* by 1: the similarity with a zero vector is 0.
NormSq(a) == IF Dot(a, a) = 0 THEN 1 ELSE Dot(a, a)

SignedSq(v) == IF v < 0 THEN 0 - v * v ELSE v * v

\* sim(q, a) <= sim(q, b), with sim(q, a) = q.a / (|q| |a|), compared exactly:
\* v |-> sign(v) v^2 is increasing and |q| is common to both sides.
SimLeq(q, a, b) == SignedSq(Dot(q, a)) * NormSq(b) <= SignedSq(Dot(q, b)) * NormSq(a)
SimEq(q, a, b) == SimLeq(q, a, b) /\ SimLeq(q, b, a)

IndexOrders(k) ==
    { p \in [ 1..k -> 1..k ] : \A i, j \in 1..k : p[i] = p[j] => i = j }

\* np.argsort(similarities): the positions in ascending order of similarity.
\* The default kind is not a stable sort, so the order of exactly equal
\* similarities is whatever the build produces: every ascending order.
argsort(q, embs) ==
    { p \in IndexOrders(Len(embs)) :
        \A i, j \in 1..Len(embs) : i < j => SimLeq(q, embs[p[i]], embs[p[j]]) }

Reverse(s) == [ i \in 1..Len(s) |-> s[Len(s) + 1 - i] ]
Max(a, b) == IF a >= b THEN a ELSE b
Min(a, b) == IF a <= b THEN a ELSE b

\* A bug the ordering claim must exclude: the reversal [::-1] is missing.
top_n_NoReverse(sorted, k) == SubSeq(sorted, Max(1, Len(sorted) - k + 1), Len(sorted))

\* A bug the selection claim must exclude: [:n] in place of [-n:].
top_n_FirstN(sorted, k) == Reverse(SubSeq(sorted, 1, Min(k, Len(sorted))))

\* sorted[-n:][::-1] for n >= 1
top_n(sorted, k) == Reverse(SubSeq(sorted, Max(1, Len(sorted) - k + 1), Len(sorted)))

Embeddings(frame) == [ i \in 1..Len(frame) |-> frame[i].embeddings ]

\* The values top_n_indices can take in find_similar_campaigns(query, df, n)
\* once the query is embedded as q; df is not empty.
top_n_indices_of(q, frame, k) == { top_n(p, k) : p \in argsort(q, Embeddings(frame)) }

\* df.iloc[top_n_indices]["content"].tolist()
contents_at(frame, idx) == [ i \in 1..Len(idx) |-> frame[idx[i]].content ]

\* What find_similar_campaigns(query, df, n) can do: return [] at once for an
\* empty df; otherwise embed the query, which raises when the service fails (no
\* handler around the call), and return the contents of the top n rows.
find_similar_campaigns(frame, k) ==
    IF frame = <<>>
    THEN { [ raised |-> FALSE, q |-> <<>>, idx |-> <<>>, result |-> <<>> ] }
    ELSE { [ raised |-> TRUE, q |-> <<>>, idx |-> <<>>, result |-> <<>> ] }
         \cup UNION { { [ raised |-> FALSE, q |-> q, idx |-> idx,
                          result |-> contents_at(frame, idx) ]
                        : idx \in top_n_indices_of(q, frame, k) }
                      : q \in Vectors }

-----------------------------------------------------------------------------
(* The values the three pure computations are exercised on *)

AuditTokens == { "stop", "warn", "check", "_FAIL", "_NEEDS_INFO", "_PASS", "x" }
AuditTexts == SeqsUpTo(AuditTokens, MaxAuditLen)

\* "Option 1:", and "option 12:" followed by a letter and a blank
MARK == << "Option", "sp", "d", ":" >>
LOW_ITEM == << "option", "sp", "d", "d", ":", "w", "sp" >>
Pieces == { MARK, LOW_ITEM, << "option" >>, << "sp" >>, << "d" >>, << ":" >> }
Copies == { Concat(ps) : ps \in SeqsUpTo(Pieces, MaxPieces) }

\* Row i of a frame under test holds a content of i letters.
Letters(i) == [ j \in 1..i |-> "w" ]
FramesOf(k) ==
    { [ i \in 1..k |-> [ content |-> Letters(i), embeddings |-> e[i] ] ]
        : e \in [ 1..k -> Vectors ] }
Frames == UNION { FramesOf(k) : k \in 0..MaxIndex }

Idle ==
    /\ compliance_manual = FALSE
    /\ indexed_df_present = FALSE
    /\ indexed_df = <<>>
    /\ campaign_options = <<>>
    /\ past_table = <<>>
    /\ tracker_table = <<>>
    /\ last_event = "none"

NoClassify == audit_result_text = <<>> /\ overall_status = "none"
NoSplit == generated_copy = <<>> /\ options = <<>>
NoQuery ==
    /\ query_embedding = <<>>
    /\ df = <<>>
    /\ n = DefaultN
    /\ top_n_indices = <<>>
    /\ similar_campaigns = <<>>

sessionVars == << compliance_manual, indexed_df_present, indexed_df, campaign_options,
                  past_table, tracker_table, last_event >>
classifyVars == << audit_result_text, overall_status >>
splitVars == << generated_copy, options >>
queryVars == << query_embedding, df, n, top_n_indices, similar_campaigns >>

-----------------------------------------------------------------------------
(* determine_overall_status applied to every audit text *)

InitClassify ==
    /\ pc = "classify"
    /\ audit_result_text \in AuditTexts
    /\ overall_status = "none"
    /\ Idle /\ NoSplit /\ NoQuery

Classify ==
    /\ pc = "classify"
    /\ overall_status' = determine_overall_status(audit_result_text)
    /\ pc' = "classified"
    /\ UNCHANGED << audit_result_text, sessionVars, splitVars, queryVars >>

SpecClassify == InitClassify /\ [][Classify]_vars

-----------------------------------------------------------------------------
(* The split of a generated copy into the batch of draft options *)

TERMS == << "w", "sp", "w" >>

InitSplit ==
    /\ pc = "split"
    /\ generated_copy \in Copies
    /\ options = <<>>
    /\ Idle /\ NoClassify /\ NoQuery

Split ==
    /\ pc = "split"
    /\ options' = split_options(generated_copy)
    /\ campaign_options' = new_options(options', TERMS)
    /\ pc' = "was_split"
    /\ UNCHANGED << generated_copy, compliance_manual, indexed_df_present, indexed_df,
                    past_table, tracker_table, last_event, classifyVars, queryVars >>

SpecSplit == InitSplit /\ [][Split]_vars

-----------------------------------------------------------------------------
(* find_similar_campaigns applied to every frame, query vector and n *)

InitQuery ==
    /\ pc = "query"
    /\ df \in Frames
    /\ n \in 1..MaxN
    /\ query_embedding = <<>>
    /\ top_n_indices = <<>>
    /\ similar_campaigns = <<>>
    /\ Idle /\ NoClassify /\ NoSplit

Query ==
    /\ pc = "query"
    /\ \E out \in find_similar_campaigns(df, n) :
         /\ query_embedding' = out.q
         /\ top_n_indices' = out.idx
         /\ similar_campaigns' = out.result
         /\ pc' = IF out.raised THEN "query_raised" ELSE "query_returned"
    /\ UNCHANGED << df, n, sessionVars, classifyVars, splitVars >>

SpecQuery == InitQuery /\ [][Query]_vars

-----------------------------------------------------------------------------
(* The session: start-up, then one action per script run or callback *)

ROW1_TEXT == << "w" >>
ROW2_TEXT == << "w", "w" >>
ROW3_TEXT == << "w", "x" >>
BLANK == <<>>

\* The rows of "Marketing Copilot Data" at start-up (their content column).
InitialSheets ==
    { <<>>, << ROW1_TEXT, BLANK, ROW2_TEXT >>, << ROW1_TEXT, ROW2_TEXT, ROW3_TEXT >> }

\* What the generative model answers to the copy prompt, and the string
\* generate_content returns when the call fails.
COPY_ERROR == << "boom", "w" >>
GenCopies ==
    { MARK \o << "sp", "w", "sp" >> \o MARK \o << "sp", "x" >>,
      << "w", "sp", "w" >>,
      COPY_ERROR }

\* What generate_terms_and_conditions returns (its error string, returned
\* when the call fails, is one more text of the same kind).
TermsTexts == { TERMS }

\* What the model answers to the audit prompt, and the string audit_with_ai
\* returns when the call fails.
AUDIT_ERROR == << "boom", "w", "x" >>
AuditAnswers ==
    { << "check", "_PASS" >>,
      << "check", "_PASS", "stop", "_FAIL" >>,
      << "warn", "_NEEDS_INFO", "check", "_PASS" >>,
      AUDIT_ERROR }

EDITED == << "w", "d" >>

\* The embedding service's vector for a document: a function of its text.
embed_document(content) == << Len(content), 1 >>

Faults == { "IndexError", "EmbeddingError" }

Init ==
    /\ pc = "boot"
    /\ compliance_manual = FALSE
    /\ indexed_df_present = FALSE
    /\ indexed_df = <<>>
    /\ campaign_options = <<>>
    /\ past_table \in InitialSheets
    /\ tracker_table = <<>>
    /\ last_event = "none"
    /\ NoClassify /\ NoSplit /\ NoQuery

\* df.dropna(subset=['content']); df = df[df['content'] != '']
with_content(rows) == SelectSeq(rows, NonEmpty)

\* initialize_and_index: the manual is read (a missing file gives ""), the sheet
\* is read and its rows embedded; any failure leaves an empty frame.
InitializeAndIndex ==
    /\ pc = "boot"
    /\ \E manual \in BOOLEAN, loaded \in BOOLEAN :
         /\ compliance_manual' = manual
         /\ IF loaded /\ with_content(past_table) # <<>>
            THEN /\ indexed_df' = [ i \in 1..Len(with_content(past_table)) |->
                                      [ content |-> with_content(past_table)[i],
                                        embeddings |->
                                           embed_document(with_content(past_table)[i]) ] ]
                 /\ last_event' = "index_ready"
            ELSE /\ indexed_df' = <<>>
                 /\ last_event' = "index_error"
    /\ indexed_df_present' = TRUE
    /\ pc' = "ready"
    /\ UNCHANGED << campaign_options, past_table, tracker_table,
                    classifyVars, splitVars, queryVars >>

\* Another browser session: initialize_and_index is cached and does not run
\* again, so this session's state holds no indexed_df (and no options yet).
NewSession ==
    /\ pc = "ready"
    /\ indexed_df_present
    /\ indexed_df_present' = FALSE
    /\ indexed_df' = <<>>
    /\ campaign_options' = <<>>
    /\ last_event' = "new_session"
    /\ UNCHANGED << pc, compliance_manual, past_table, tracker_table,
                    classifyVars, splitVars, queryVars >>

\* A bug the replacement claim must exclude: the batch is not emptied first.
generate_batch_Merge(old, texts, t_and_c) == old \o new_options(texts, t_and_c)

\* st.session_state.campaign_options = [] and then one append per option
generate_batch(old, texts, t_and_c) == new_options(texts, t_and_c)

\* The script run with the Generate Ideas button pressed.
GenerateIdeas ==
    /\ pc = "ready"
    /\ \E search_query \in BOOLEAN :
         IF ~(search_query /\ compliance_manual /\ indexed_df_present)
         THEN /\ last_event' = "warning"
              /\ UNCHANGED << campaign_options, splitVars >>
         ELSE \E out \in { [ raised |-> o.raised, examples |-> Len(o.result) ]
                              : o \in find_similar_campaigns(indexed_df, DefaultN) } :
                 /\ IF out.raised
                    THEN /\ last_event' = "EmbeddingError"
                         /\ UNCHANGED << campaign_options, splitVars >>
                    ELSE IF out.examples < NumExamples
                    THEN /\ last_event' = "IndexError"
                         /\ UNCHANGED << campaign_options, splitVars >>
                    ELSE \E copy \in GenCopies, t_and_c \in TermsTexts :
                            /\ generated_copy' = copy
                            /\ options' = split_options(copy)
                            /\ campaign_options' =
                                  generate_batch(campaign_options, options', t_and_c)
                            /\ last_event' = "generated"
    /\ UNCHANGED << pc, compliance_manual, indexed_df_present, indexed_df,
                    past_table, tracker_table, classifyVars, queryVars >>

sessionRest == << pc, compliance_manual, indexed_df_present, indexed_df,
                  classifyVars, splitVars, queryVars >>

\* The Edit button's on_click: opt.update(is_editing=not opt['is_editing'])
ToggleEdit(i) ==
    /\ pc = "ready"
    /\ campaign_options' =
          [ campaign_options EXCEPT ![i].is_editing = ~campaign_options[i].is_editing ]
    /\ last_event' = "rerun"
    /\ UNCHANGED << sessionRest, past_table, tracker_table >>

\* Save, shown while editing: both text areas are stored.
Save(i) ==
    /\ pc = "ready"
    /\ campaign_options[i].is_editing
    /\ \E text \in { campaign_options[i].campaign_text, EDITED } :
         campaign_options' =
            [ campaign_options EXCEPT ![i].campaign_text = text,
                                      ![i].is_editing = FALSE ]
    /\ last_event' = "rerun"
    /\ UNCHANGED << sessionRest, past_table, tracker_table >>

\* Cancel, shown while editing.
Cancel(i) ==
    /\ pc = "ready"
    /\ campaign_options[i].is_editing
    /\ campaign_options' = [ campaign_options EXCEPT ![i].is_editing = FALSE ]
    /\ last_event' = "rerun"
    /\ UNCHANGED << sessionRest, past_table, tracker_table >>

\* Audit Campaign: audit_with_ai returns the model's text or its error string.
Audit(i) ==
    /\ pc = "ready"
    /\ \E answer \in AuditAnswers :
         campaign_options' = [ campaign_options EXCEPT ![i].audit_result = answer ]
    /\ last_event' = "rerun"
    /\ UNCHANGED << sessionRest, past_table, tracker_table >>

\* A bug the gating claim must exclude: every audited option can be used.
finalize_button_UseAlways(status) ==
    IF status = "pending" THEN "none" ELSE "Approved & Used"

\* The finalize button the render loop shows for a status, by the status it
\* passes to finalize_campaign ("none": no button).
finalize_button(status) ==
    IF status = "compliant" THEN "Approved & Used"
    ELSE IF status \in { "needs-review", "non-compliant" } THEN "Under Review"
    ELSE "none"

\* new_row_tracker, by its status and audit_result columns (the id, text,
\* channel, terms and timestamp columns are left out).
tracker_row(option, status) ==
    [ status |-> status, audit_result |-> option.audit_result ]

\* A bug the sheet claim must exclude: the library gains a row on every finalize.
main_sheet_after_Always(sheet, option, status) == Append(sheet, option.campaign_text)

\* if status == "Approved & Used": main_data_sheet.append_row(new_row_main)
main_sheet_after(sheet, option, status) ==
    IF status = "Approved & Used" THEN Append(sheet, option.campaign_text) ELSE sheet

\* The finalize button's on_click, finalize_campaign: a row is appended to the
\* tracker, then for "Approved & Used" one to the library; a failure at either
\* step shows the error and leaves the rest undone.
Finalize(i) ==
    /\ pc = "ready"
    /\ Len(tracker_table) < MaxTracker
    /\ LET status ==
              finalize_button(determine_overall_status(campaign_options[i].audit_result))
       IN  /\ status # "none"
           /\ \E reached \in { "none", "tracker", "all" } :
                /\ tracker_table' =
                      IF reached = "none" THEN tracker_table
                      ELSE Append(tracker_table, tracker_row(campaign_options[i], status))
                /\ past_table' =
                      IF reached = "all"
                      THEN main_sheet_after(past_table, campaign_options[i], status)
                      ELSE past_table
                /\ reached = "tracker" => status = "Approved & Used"
                /\ last_event' = IF reached = "all" THEN "saved" ELSE "store_error"
    /\ UNCHANGED << sessionRest, campaign_options >>

Next ==
    \/ InitializeAndIndex
    \/ NewSession
    \/ GenerateIdeas
    \/ \E i \in 1..Len(campaign_options) : ToggleEdit(i)
    \/ \E i \in 1..Len(campaign_options) : Save(i)
    \/ \E i \in 1..Len(campaign_options) : Cancel(i)
    \/ \E i \in 1..Len(campaign_options) : Audit(i)
    \/ \E i \in 1..Len(campaign_options) : Finalize(i)

Spec == Init /\ [][Next]_vars

-----------------------------------------------------------------------------
(* Properties of the classifier *)

MarkerAt(text, i, emoji, word) ==
    i + 1 <= Len(text) /\ text[i] = emoji /\ text[i + 1] = word
HasFail(text) == \E i \in 1..Len(text) : MarkerAt(text, i, "stop", "_FAIL")
HasNeedsInfo(text) == \E i \in 1..Len(text) : MarkerAt(text, i, "warn", "_NEEDS_INFO")
HasPass(text) == \E i \in 1..Len(text) : MarkerAt(text, i, "check", "_PASS")
HasNoMarker(text) == ~HasFail(text) /\ ~HasNeedsInfo(text) /\ ~HasPass(text)

\* C1: whatever the positions of the markers in the audit text, a fail marker
\* gives non-compliant; otherwise a needs-info marker gives needs-review;
\* otherwise a pass marker gives compliant.
C1_SeverityPrecedence ==
    pc = "classified" =>
        /\ HasFail(audit_result_text) => overall_status = "non-compliant"
        /\ (~HasFail(audit_result_text) /\ HasNeedsInfo(audit_result_text))
               => overall_status = "needs-review"
        /\ (~HasFail(audit_result_text) /\ ~HasNeedsInfo(audit_result_text)
               /\ HasPass(audit_result_text)) => overall_status = "compliant"

\* A classified text whose pass marker comes before its fail marker.
C1_Witness ==
    /\ pc = "classified"
    /\ \E i, j \in 1..Len(audit_result_text) :
          /\ i < j
          /\ MarkerAt(audit_result_text, i, "check", "_PASS")
          /\ MarkerAt(audit_result_text, j, "stop", "_FAIL")
    /\ overall_status = "non-compliant"

-----------------------------------------------------------------------------
(* Properties of the similarity query *)

Returned(i) == \E k \in 1..Len(top_n_indices) : top_n_indices[k] = i
PosOf(i) == CHOOSE k \in 1..Len(top_n_indices) : top_n_indices[k] = i
Emb(i) == df[i].embeddings

\* C3: a query that returns gives exactly min(n, k) contents, those of distinct
\* rows, in an order of non-increasing similarity, whatever the similarities.
C3_CountAndOrder ==
    pc = "query_returned" =>
        /\ Len(similar_campaigns) = Min(n, Len(df))
        /\ Len(top_n_indices) = Len(similar_campaigns)
        /\ \A a, b \in 1..Len(top_n_indices) :
              a < b =>
                 /\ top_n_indices[a] # top_n_indices[b]
                 /\ SimLeq(query_embedding, Emb(top_n_indices[b]), Emb(top_n_indices[a]))
        /\ \A a \in 1..Len(top_n_indices) :
              similar_campaigns[a] = df[top_n_indices[a]].content

\* Fewer rows asked for than indexed, a row of negative similarity returned,
\* and two returned rows of different similarity.
C3_Witness ==
    /\ pc = "query_returned"
    /\ n < Len(df)
    /\ Len(similar_campaigns) = n
    /\ \E a \in 1..Len(top_n_indices) : Dot(query_embedding, Emb(top_n_indices[a])) < 0
    /\ \E a, b \in 1..Len(top_n_indices) :
          ~SimEq(query_embedding, Emb(top_n_indices[a]), Emb(top_n_indices[b]))

\* C4 as stated: of two rows of exactly equal similarity the one indexed first
\* is returned first, and is the one returned when only one of them is.
C4_InsertionOrderOnTies ==
    pc = "query_returned" =>
        \A i, j \in 1..Len(df) :
            (i < j /\ SimEq(query_embedding, Emb(i), Emb(j))) =>
                /\ (Returned(i) /\ Returned(j)) => PosOf(i) < PosOf(j)
                /\ Returned(j) => Returned(i)

\* C4 as amended: two rows of exactly equal similarity come in either order;
\* between them only rows of that same similarity are returned, and when one
\* of them is left out no returned row is less similar than it.
C4_TiesStayTogether ==
    pc = "query_returned" =>
        \A i, j \in 1..Len(df) :
            (i # j /\ SimEq(query_embedding, Emb(i), Emb(j))) =>
                /\ (Returned(i) /\ Returned(j)) =>
                      \A k \in 1..Len(top_n_indices) :
                          (PosOf(i) < k /\ k < PosOf(j)) =>
                              SimEq(query_embedding, Emb(top_n_indices[k]), Emb(i))
                /\ (Returned(i) /\ ~Returned(j)) =>
                      \A k \in 1..Len(top_n_indices) :
                          SimLeq(query_embedding, Emb(j), Emb(top_n_indices[k]))

\* Two rows with the same non-zero embedding, both returned, the one indexed
\* later first.
C4_Witness ==
    /\ pc = "query_returned"
    /\ query_embedding # <<>>
    /\ \E i, j \in 1..Len(df) :
          /\ i < j
          /\ Emb(i) = Emb(j)
          /\ Dot(query_embedding, Emb(i)) # 0
          /\ Returned(i) /\ Returned(j)
          /\ PosOf(j) < PosOf(i)

-----------------------------------------------------------------------------
(* Properties of the split *)

MarkerStarts(text) == { i \in 1..Len(text) : MatchEnd(text, i) > 0 }
NthSmallest(S, k) == CHOOSE v \in S : Cardinality({ u \in S : u <= v }) = k

\* Segment 0 is the text before the first marker, segment k the text after
\* the k-th marker, up to the next marker or the end of the text.
SegmentFirst(text, k) ==
    IF k = 0 THEN 1 ELSE MatchEnd(text, NthSmallest(MarkerStarts(text), k)) + 1
SegmentLast(text, k) ==
    IF k = Cardinality(MarkerStarts(text)) THEN Len(text)
    ELSE NthSmallest(MarkerStarts(text), k + 1) - 1
Segment(text, k) == SubSeq(text, SegmentFirst(text, k), SegmentLast(text, k))
NonBlankSegments(text) ==
    { k \in 0..Cardinality(MarkerStarts(text)) : strip(Segment(text, k)) # <<>> }
ThreeMarkersWithText(text) ==
    /\ Cardinality(MarkerStarts(text)) = 3
    /\ \A k \in 1..3 : strip(Segment(text, k)) # <<>>

\* C5 as stated: three markers each followed by text give exactly the three
\* trimmed texts, and a copy without marker gives one option, the raw text
\* (read as trimmed, for a copy that is not blank).
C5_SplitAsStated ==
    pc = "was_split" =>
        /\ ThreeMarkersWithText(generated_copy) =>
              /\ Len(campaign_options) = 3
              /\ \A k \in 1..3 :
                    campaign_options[k].campaign_text = strip(Segment(generated_copy, k))
        /\ (MarkerStarts(generated_copy) = {} /\ strip(generated_copy) # <<>>) =>
              /\ Len(campaign_options) = 1
              /\ campaign_options[1].campaign_text = strip(generated_copy)

\* C5 as amended: one option per non-blank segment, in order, trimmed, the text
\* before the first marker being a segment too; so three markers each followed
\* by text and preceded by blanks only give the three texts, and a copy without
\* marker gives one option holding the trimmed copy, or none when it is blank.
C5_OnePerNonBlankSegment ==
    pc = "was_split" =>
        /\ Len(campaign_options) = Cardinality(NonBlankSegments(generated_copy))
        /\ \A k \in 1..Len(campaign_options) :
              /\ campaign_options[k].id = k
              /\ campaign_options[k].campaign_text =
                    strip(Segment(generated_copy,
                                  NthSmallest(NonBlankSegments(generated_copy), k)))
        /\ (ThreeMarkersWithText(generated_copy) /\ strip(Segment(generated_copy, 0)) = <<>>)
              => Len(campaign_options) = 3
        /\ MarkerStarts(generated_copy) = {} =>
              campaign_options = IF strip(generated_copy) = <<>> THEN <<>>
                                 ELSE new_options(<< strip(generated_copy) >>, TERMS)

\* Three markers, each followed by text, nothing before the first: three options.
C5_Witness ==
    /\ pc = "was_split"
    /\ ThreeMarkersWithText(generated_copy)
    /\ strip(Segment(generated_copy, 0)) = <<>>
    /\ Len(campaign_options) = 3
    /\ campaign_options[3].campaign_text = strip(Segment(generated_copy, 3))

-----------------------------------------------------------------------------
(* Properties of the session *)

StatusOf(option) == determine_overall_status(option.audit_result)

\* C2 as stated: an option of the batch is pending exactly when its
\* audit_result is empty.
C2_PendingIffEmpty ==
    \A i \in 1..Len(campaign_options) :
        StatusOf(campaign_options[i]) = "pending"
            <=> campaign_options[i].audit_result = <<>>

\* C2 as amended: an option of the batch is pending exactly when its
\* audit_result holds none of the three markers, the empty text included; an
\* audit error string, or any other text without marker, leaves it pending.
C2_PendingIffNoMarker ==
    \A i \in 1..Len(campaign_options) :
        /\ StatusOf(campaign_options[i]) = "pending"
              <=> HasNoMarker(campaign_options[i].audit_result)
        /\ campaign_options[i].audit_result = <<>>
              => StatusOf(campaign_options[i]) = "pending"

\* An audited option whose audit text holds no marker, next to one that holds one.
C2_Witness ==
    \E i, j \in 1..Len(campaign_options) :
        /\ campaign_options[i].audit_result = AUDIT_ERROR
        /\ StatusOf(campaign_options[i]) = "pending"
        /\ StatusOf(campaign_options[j]) = "non-compliant"

\* C6: with the index absent or empty after start-up, no script run ends in an
\* unhandled fault.
C6_NoFaultWithoutIndex ==
    (pc = "ready" /\ indexed_df = <<>>) => last_event \notin Faults

\* C7: no failure of an external call ends a script run as an unhandled fault.
C7_ExternalFailuresCaught == last_event # "EmbeddingError"

IsAppend(before, after) ==
    Len(after) = Len(before) + 1 /\ SubSeq(after, 1, Len(before)) = before

\* C8 as stated: no step writes the library sheet, and a step changes the
\* tracker sheet only by appending one row.
C8_LibraryNeverWritten ==
    [][ /\ past_table' = past_table
        /\ tracker_table' = tracker_table \/ IsAppend(tracker_table, tracker_table')
      ]_vars

\* C8 as amended: both sheets only ever gain rows at their end; the tracker
\* gains one per successful finalize, and the library gains one, the finalized
\* campaign text, only in a step that records "Approved & Used" in the tracker.
C8_SheetsOnlyAppended ==
    [][ /\ tracker_table' = tracker_table \/ IsAppend(tracker_table, tracker_table')
        /\ \/ past_table' = past_table
           \/ /\ IsAppend(past_table, past_table')
              /\ IsAppend(tracker_table, tracker_table')
              /\ tracker_table'[Len(tracker_table')].status = "Approved & Used"
              /\ \E i \in 1..Len(campaign_options) :
                    /\ past_table'[Len(past_table')] = campaign_options[i].campaign_text
                    /\ tracker_table'[Len(tracker_table')].audit_result =
                          campaign_options[i].audit_result
      ]_vars

\* A finalize has added the approved text to a library that had three rows.
C8_Witness ==
    /\ Len(past_table) = 4
    /\ Len(tracker_table) = 1
    /\ tracker_table[1].status = "Approved & Used"
    /\ \E i \in 1..Len(campaign_options) :
          past_table[4] = campaign_options[i].campaign_text

\* C9: right after a generation that succeeded the batch is the list of
\* options built from that copy alone: ids 1..k in order, no audit result,
\* not being edited, hence pending.
C9_BatchReplaced ==
    last_event = "generated" =>
        /\ Len(campaign_options) = Len(options)
        /\ options = split_options(generated_copy)
        /\ \A k \in 1..Len(campaign_options) :
              /\ campaign_options[k].id = k
              /\ campaign_options[k].campaign_text = options[k]
              /\ campaign_options[k].audit_result = <<>>
              /\ ~campaign_options[k].is_editing
              /\ StatusOf(campaign_options[k]) = "pending"

\* A generation of two options after an earlier batch in which an option was
\* edited, audited and finalized.
C9_Witness ==
    /\ last_event = "generated"
    /\ Len(campaign_options) = 2
    /\ Len(tracker_table) = 1
    /\ tracker_table[1].audit_result # <<>>
    /\ Len(past_table) = 4
    /\ past_table[4] = EDITED

\* C10: every tracker row carries an audit_result that is not pending;
\* "Approved & Used" rows carry one that classifies as compliant, "Under
\* Review" rows one that classifies as needs-review or non-compliant.
C10_FinalizeGated ==
    \A r \in 1..Len(tracker_table) :
        /\ tracker_table[r].status \in { "Approved & Used", "Under Review" }
        /\ tracker_table[r].status = "Approved & Used"
              => determine_overall_status(tracker_table[r].audit_result) = "compliant"
        /\ tracker_table[r].status = "Under Review"
              => determine_overall_status(tracker_table[r].audit_result)
                    \in { "needs-review", "non-compliant" }

\* A row sent for review whose audit holds a pass marker and a fail marker.
C10_Witness ==
    \E r \in 1..Len(tracker_table) :
        /\ tracker_table[r].status = "Under Review"
        /\ HasPass(tracker_table[r].audit_result)
        /\ HasFail(tracker_table[r].audit_result)

====
